---- MODULE Spec2Model ----
(***************************************************************************)
(* CDockWidget (src/src/DockWidget.cpp) as a state machine.                *)
(*                                                                         *)
(* One dock widget is the private data DockWidgetPrivate (d), its toggle   *)
(* view QAction (action), its CDockWidgetTab (tab), its QFrame base        *)
(* (frame) and its optional QToolBar (toolbar).  The dock areas, dock      *)
(* containers and floating containers the widget talks to are not part of  *)
(* DockWidget.cpp; they are modelled from the specification (area).        *)
(* Every public operation of CDockWidget is one action; the calls and      *)
(* notifications an operation makes are collected in the effect log fx of  *)
(* the call and kept in last.                                              *)
(***************************************************************************)
EXTENDS Integers, Sequences, FiniteSets, TLC

(***************************************************************************)
(* Bounds                                                                  *)
(***************************************************************************)
NumWidgets == 2
SplitterDepth == 2
\* calls made on the widgets in one run
MaxCalls == 4

Widgets == 1..NumWidgets
NoWidget == 0
NoArea == 0
MainArea == 1
\* one docked area in the main container, one floating slot per widget
Areas == 1..(NumWidgets + 1)
FloatingAreas == Areas \ {MainArea}
NoContainer == 0

\* QSize(16, 16) and QSize(24, 24), by their edge
IconSizeDocked == 16
IconSizeFloating == 24
NoIcon == "null"
Icons == {NoIcon, "iconA", "iconB"}
\* CDockWidget::DockWidgetFeature and the bit-set DockWidgetFeatures over it
DockWidgetFeatureFlags ==
  {"DockWidgetClosable", "DockWidgetMovable", "DockWidgetFloatable"}
AllDockWidgetFeatures == DockWidgetFeatureFlags
NoDockWidgetFeatures == {}
DockWidgetFeatures == SUBSET DockWidgetFeatureFlags
\* the values of the enum: the single flags, all of them, none of them
DockWidgetFeature ==
  {{f} : f \in DockWidgetFeatureFlags}
    \cup {AllDockWidgetFeatures, NoDockWidgetFeatures}

IconSizes == {IconSizeDocked, IconSizeFloating}
ToolButtonStyles == {"ToolButtonIconOnly", "ToolButtonTextUnderIcon"}
States == {"StateDocked", "StateFloating"}
\* window titles: the one given to the constructor and another one
InitialTitle == "title"
Titles == {InitialTitle, "renamed"}

VARIABLES d, action, tab, frame, toolbar, area, last, prev, crashed, hist, calls,
          topLevelChangedLog

vars == <<d, action, tab, frame, toolbar, area, last, prev, crashed, hist, calls,
          topLevelChangedLog>>

(***************************************************************************)
(* Effect log of one call                                                  *)
(***************************************************************************)
NoFx ==
  [calls |-> <<>>, signals |-> <<>>, actionSignals |-> <<>>,
   topLevelEvents |-> <<>>,
   internal |-> 0, nullDeref |-> FALSE, outcome |-> "defined",
   crashed |-> FALSE]

Call(S, fn, on, arg) ==
  [S EXCEPT !.fx.calls = Append(@, [fn |-> fn, on |-> on, arg |-> arg])]

\* a signal of the dock widget w, with what isClosed() says when it is emitted
Emit(S, sig, w, arg) ==
  [S EXCEPT !.fx.signals =
              Append(@, [sig |-> sig, w |-> w, arg |-> arg,
                         closed |-> S.d[w].Closed])]

World ==
  [d |-> d, action |-> action, tab |-> tab, frame |-> frame,
   toolbar |-> toolbar, area |-> area, fx |-> NoFx]

(***************************************************************************)
(* Freshly constructed objects                                             *)
(***************************************************************************)
DockWidgetPrivateInit ==
  [Closed |-> FALSE, DockArea |-> NoArea, IsFloatingTopLevel |-> FALSE,
   Features |-> AllDockWidgetFeatures,
   ToolBar |-> FALSE,
   ToolBarStyleDocked |-> "ToolButtonIconOnly",
   ToolBarStyleFloating |-> "ToolButtonTextUnderIcon",
   ToolBarIconSizeDocked |-> IconSizeDocked,
   ToolBarIconSizeFloating |-> IconSizeFloating]

ActionInit ==
  [checkable |-> TRUE, checked |-> FALSE, blocked |-> FALSE, icon |-> NoIcon,
   text |-> InitialTitle]

TabInit ==
  [hidden |-> FALSE, parent |-> "widget", icon |-> NoIcon, text |-> InitialTitle]

FrameInit ==
  [hidden |-> TRUE, parent |-> "none", slots |-> 0, title |-> InitialTitle]

ToolBarInit == [iconSize |-> IconSizeDocked, style |-> "ToolButtonIconOnly"]

AreaInit ==
  [visible |-> TRUE, current |-> NoWidget, opened |-> {},
   floatShown |-> FALSE, splitterHidden |-> [i \in 1..SplitterDepth |-> FALSE]]

(***************************************************************************)
(* QAction                                                                 *)
(***************************************************************************)
ActionBlockSignals(S, w, b) == [S EXCEPT !.action[w].blocked = b]

\* only a checkable action can be checked; toggled(bool) is emitted on a
\* change unless the signals are blocked
ActionSetChecked(S, w, b) ==
  LET a == S.action[w] IN
  IF ~a.checkable \/ a.checked = b THEN S
  ELSE LET S1 == [S EXCEPT !.action[w].checked = b] IN
       IF a.blocked THEN S1
       ELSE [S1 EXCEPT !.fx.actionSignals =
                         Append(@, [w |-> w, sig |-> "toggled", arg |-> b])]

ActionSetCheckable(S, w, b) ==
  IF S.action[w].checkable = b THEN S
  ELSE [S EXCEPT !.action[w].checkable = b, !.action[w].checked = FALSE]

ActionSetIcon(S, w, icon) == [S EXCEPT !.action[w].icon = icon]

(***************************************************************************)
(* Dock area, dock container, floating container (from the specification)  *)
(***************************************************************************)
dockWidgets(S, a) == {w \in Widgets : S.d[w].DockArea = a}

openedDockWidgets(S, a) == {w \in dockWidgets(S, a) : ~S.d[w].Closed}

Min(s) == CHOOSE x \in s : \A y \in s : x <= y
Max(s) == CHOOSE x \in s : \A y \in s : x >= y

\* the open dock widget after w in tab order, else the one before it
nextOpenDockWidget(S, a, w) ==
  LET others == openedDockWidgets(S, a) \ {w} IN
  IF others = {} THEN NoWidget
  ELSE IF \E x \in others : x > w
       THEN Min({x \in others : x > w})
       ELSE Max(others)

setCurrentDockWidget(S, a, w) ==
  Call([S EXCEPT !.area[a].current = w], "setCurrentDockWidget", a, w)

AreaToggleView(S, a, Open) ==
  Call([S EXCEPT !.area[a].visible = Open], "toggleView", a, IF Open THEN 1 ELSE 0)

hideAreaWithNoVisibleContent(S, a) ==
  Call([S EXCEPT !.area[a].visible = FALSE], "hideAreaWithNoVisibleContent", a, 0)

toggleDockWidgetView(S, a, w, Open) ==
  Call([S EXCEPT !.area[a].opened = IF Open THEN @ \cup {w} ELSE @ \ {w}],
       "toggleDockWidgetView", a, w)

updateTitleBarVisibility(S, a) == Call(S, "updateTitleBarVisibility", a, 0)

markTitleBarMenuOutdated(S, a) == Call(S, "markTitleBarMenuOutdated", a, 0)

\* every area is the only area of its container
AreaDockContainer(a) == a

ContainerIsFloating(c) == c \in FloatingAreas

topLevelDockWidget(S, c) ==
  LET open == openedDockWidgets(S, c) IN
  IF S.area[c].visible /\ Cardinality(open) = 1
  THEN CHOOSE w \in open : TRUE
  ELSE NoWidget

FloatingWidgetShow(S, c) ==
  Call([S EXCEPT !.area[c].floatShown = TRUE], "FloatingWidget.show", c, 0)

updateWindowTitle(S, c) == Call(S, "updateWindowTitle", c, 0)

\* the area takes the dock widget w into its tab bar and its layout
AreaInsertDockWidget(S, a, w) ==
  LET S1 == [S EXCEPT !.frame[w].parent = "area", !.frame[w].hidden = FALSE,
                      !.tab[w].parent = "area",
                      !.area[a].current =
                         IF dockWidgets(S, a) = {} THEN w ELSE @,
                      !.area[a].opened =
                         IF S.d[w].Closed THEN @ \ {w} ELSE @ \cup {w}]
  IN S1

\* the area gives up the dock widget w
AreaRemoveDockWidget(S, a, w) ==
  LET next == nextOpenDockWidget(S, a, w)
      S1 == [S EXCEPT !.area[a].opened = @ \ {w}]
  IN IF next # NoWidget
     THEN [S1 EXCEPT !.area[a].current = IF @ = w THEN next ELSE @]
     ELSE [S1 EXCEPT !.area[a].visible = FALSE,
                     !.area[a].current = IF @ = w THEN NoWidget ELSE @]

\* an area that holds no dock widget is deleted
CollectAreas(S) ==
  [S EXCEPT !.area = [a \in Areas |->
                        IF dockWidgets(S, a) = {} THEN AreaInit ELSE S.area[a]]]

FreeFloatingArea(S) == Min({a \in FloatingAreas : dockWidgets(S, a) = {}})

(***************************************************************************)
(* DockWidgetPrivate and CDockWidget                                       *)
(***************************************************************************)
dockContainer(S, w) ==
  IF S.d[w].DockArea # NoArea THEN AreaDockContainer(S.d[w].DockArea)
  ELSE NoContainer

isInFloatingContainer(S, w) ==
  LET Container == dockContainer(S, w) IN
  IF Container = NoContainer THEN FALSE
  ELSE IF ~ContainerIsFloating(Container) THEN FALSE
  ELSE TRUE

isFloating(S, w) ==
  IF ~isInFloatingContainer(S, w) THEN FALSE
  ELSE topLevelDockWidget(S, dockContainer(S, w)) = w

isClosed(S, w) == S.d[w].Closed

setToggleViewActionChecked(S, w, Checked) ==
  ActionBlockSignals(
    ActionSetChecked(ActionBlockSignals(S, w, TRUE), w, Checked), w, FALSE)

\* mutant: checked as soon as there is an area
setDockArea_IgnoresClosed(S, w, DockArea) ==
  ActionSetChecked([S EXCEPT !.d[w].DockArea = DockArea], w, DockArea # NoArea)

setDockArea(S, w, DockArea) ==
  LET S1 == [S EXCEPT !.d[w].DockArea = DockArea] IN
  ActionSetChecked(S1, w, DockArea # NoArea /\ ~isClosed(S1, w))

setClosedState(S, w, Closed) == [S EXCEPT !.d[w].Closed = Closed]

\* mutant: the closed flag is left as it is
flagAsUnassigned_KeepsClosedFlag(S, w) ==
  LET S2 == [S EXCEPT !.frame[w].parent = "manager", !.frame[w].hidden = TRUE]
      S3 == setDockArea(S2, w, NoArea)
  IN [S3 EXCEPT !.tab[w].parent = "widget"]

flagAsUnassigned(S, w) ==
  LET S1 == [S EXCEPT !.d[w].Closed = TRUE]
      \* setParent(d->DockManager); setVisible(false)
      S2 == [S1 EXCEPT !.frame[w].parent = "manager", !.frame[w].hidden = TRUE]
      S3 == setDockArea(S2, w, NoArea)
  IN [S3 EXCEPT !.tab[w].parent = "widget"]

setToggleViewActionMode(S, w, Mode) ==
  IF Mode = "ActionModeToggle"
  THEN ActionSetIcon(ActionSetCheckable(S, w, TRUE), w, NoIcon)
  ELSE ActionSetIcon(ActionSetCheckable(S, w, FALSE), w, S.tab[w].icon)

\* mutant: size and style are set without a look at the tool bar
setToolbarFloatingStyle_AlwaysApplies(S, w, Floating) ==
  IF ~S.d[w].ToolBar THEN S
  ELSE
    LET IconSize == IF Floating THEN S.d[w].ToolBarIconSizeFloating
                    ELSE S.d[w].ToolBarIconSizeDocked
        S1 == Call([S EXCEPT !.toolbar[w].iconSize = IconSize],
                   "setIconSize", w, IconSize)
        ButtonStyle == IF Floating THEN S.d[w].ToolBarStyleFloating
                       ELSE S.d[w].ToolBarStyleDocked
    IN Call([S1 EXCEPT !.toolbar[w].style = ButtonStyle],
            "setToolButtonStyle", w, 0)

setToolbarFloatingStyle(S, w, Floating) ==
  IF ~S.d[w].ToolBar THEN S
  ELSE
    LET IconSize == IF Floating THEN S.d[w].ToolBarIconSizeFloating
                    ELSE S.d[w].ToolBarIconSizeDocked
        S1 == IF IconSize # S.toolbar[w].iconSize
              THEN Call([S EXCEPT !.toolbar[w].iconSize = IconSize],
                        "setIconSize", w, IconSize)
              ELSE S
        ButtonStyle == IF Floating THEN S.d[w].ToolBarStyleFloating
                       ELSE S.d[w].ToolBarStyleDocked
    IN IF ButtonStyle # S1.toolbar[w].style
       THEN Call([S1 EXCEPT !.toolbar[w].style = ButtonStyle],
                 "setToolButtonStyle", w, 0)
       ELSE S1

\* the slots connected to topLevelChanged(bool), one run per connection
RECURSIVE RunTopLevelChangedSlots(_, _, _, _)
RunTopLevelChangedSlots(S, w, Floating, n) ==
  IF n = 0 THEN S
  ELSE RunTopLevelChangedSlots(setToolbarFloatingStyle(S, w, Floating),
                               w, Floating, n - 1)

\* mutant: the signal is emitted whatever the cached flag is
emitTopLevelChanged_NoCheck(S, w, Floating) ==
  LET S1 == [S EXCEPT !.d[w].IsFloatingTopLevel = Floating]
      S2 == Emit(S1, "topLevelChanged", w, Floating)
  IN RunTopLevelChangedSlots(S2, w, Floating, S.frame[w].slots)

emitTopLevelChanged(S, w, Floating) ==
  IF Floating # S.d[w].IsFloatingTopLevel
  THEN LET S1 == [S EXCEPT !.d[w].IsFloatingTopLevel = Floating]
           S2 == Emit(S1, "topLevelChanged", w, Floating)
       IN RunTopLevelChangedSlots(S2, w, Floating, S.frame[w].slots)
  ELSE S

\* the effect log keeps every top level event: the widget, the value, the
\* cached flag it met and the signals emitted before and after it
emitTopLevelEventForWidget(S, TopLevelDockWidget, Floating) ==
  IF TopLevelDockWidget # NoWidget
  THEN LET S1 == emitTopLevelChanged(
                   updateTitleBarVisibility(S, S.d[TopLevelDockWidget].DockArea),
                   TopLevelDockWidget, Floating)
       IN [S1 EXCEPT !.fx.topLevelEvents =
                       Append(@, [w |-> TopLevelDockWidget, floating |-> Floating,
                                  cached |-> S.d[TopLevelDockWidget].IsFloatingTopLevel,
                                  from |-> Len(S.fx.signals),
                                  to |-> Len(S1.fx.signals)])]
  ELSE S

\* new CFloatingDockContainer(_this): a dock container with one new dock area
\* that holds the dock widget
NewFloatingDockContainer(S, w) ==
  LET a == FreeFloatingArea(S)
      S1 == Call([S EXCEPT !.area[a] = AreaInit], "newFloatingDockContainer", a, w)
      S2 == AreaInsertDockWidget(S1, a, w)
  IN setDockArea(S2, w, a)

\* QWidget::isVisible() of the i-th splitter above the area: the splitter and
\* all its ancestors up to the window are shown
SplitterIsVisible(S, a, i) ==
  /\ ContainerIsFloating(AreaDockContainer(a)) => S.area[a].floatShown
  /\ \A j \in i..SplitterDepth : ~S.area[a].splitterHidden[j]

\* mutant: the walk stops at the first splitter that is not hidden itself
RECURSIVE ShowSplitters_StopsAtShown(_, _, _)
ShowSplitters_StopsAtShown(S, a, i) ==
  IF i <= SplitterDepth /\ S.area[a].splitterHidden[i]
  THEN ShowSplitters_StopsAtShown(
         [S EXCEPT !.area[a].splitterHidden[i] = FALSE], a, i + 1)
  ELSE S

RECURSIVE ShowSplitters(_, _, _)
ShowSplitters(S, a, i) ==
  IF i <= SplitterDepth /\ ~SplitterIsVisible(S, a, i)
  THEN ShowSplitters([S EXCEPT !.area[a].splitterHidden[i] = FALSE], a, i + 1)
  ELSE S

\* mutant: the new floating container is never shown
showDockWidget_NoShow(S, w) ==
  IF S.d[w].DockArea = NoArea
  THEN NewFloatingDockContainer(S, w)
  ELSE
    LET DockArea == S.d[w].DockArea
        S1 == AreaToggleView(S, DockArea, TRUE)
        S2 == setCurrentDockWidget(S1, DockArea, w)
        S3 == [S2 EXCEPT !.tab[w].hidden = FALSE]
    IN ShowSplitters(S3, DockArea, 1)

showDockWidget(S, w) ==
  IF S.d[w].DockArea = NoArea
  THEN LET S1 == NewFloatingDockContainer(S, w) IN
       FloatingWidgetShow(S1, S1.d[w].DockArea)
  ELSE
    LET DockArea == S.d[w].DockArea
        S1 == AreaToggleView(S, DockArea, TRUE)
        S2 == setCurrentDockWidget(S1, DockArea, w)
        S3 == [S2 EXCEPT !.tab[w].hidden = FALSE]
        S4 == ShowSplitters(S3, DockArea, 1)
        Container == AreaDockContainer(DockArea)
    IN IF ContainerIsFloating(Container)
       THEN FloatingWidgetShow(S4, Container)
       ELSE S4

\* mutant: the area is hidden whatever else is open in it
updateParentDockArea_AlwaysHides(S, w) ==
  IF S.d[w].DockArea = NoArea THEN S
  ELSE hideAreaWithNoVisibleContent(S, S.d[w].DockArea)

updateParentDockArea(S, w) ==
  IF S.d[w].DockArea = NoArea THEN S
  ELSE
    LET DockArea == S.d[w].DockArea
        NextDockWidget == nextOpenDockWidget(S, DockArea, w)
    IN IF NextDockWidget # NoWidget
       THEN setCurrentDockWidget(S, DockArea, NextDockWidget)
       ELSE hideAreaWithNoVisibleContent(S, DockArea)

\* mutant: the parent dock area is not updated
hideDockWidget_TabOnly(S, w) == [S EXCEPT !.tab[w].hidden = TRUE]

hideDockWidget(S, w) ==
  updateParentDockArea([S EXCEPT !.tab[w].hidden = TRUE], w)

\* DockContainer->floatingWidget() on a null DockContainer is undefined: the
\* call faults, or it goes on with a null or with a stray pointer
NullDerefOutcomes == {"fault", "null", "stray"}

\* mutant: the owning area is not told
toggleViewInternalSync_NoReport(S, w, Open) ==
  LET S2 == [S EXCEPT !.d[w].Closed = ~Open]
  IN ActionBlockSignals(
       ActionSetChecked(ActionBlockSignals(S2, w, TRUE), w, Open), w, FALSE)

\* lines 455-462: the closed flag, the silenced sync of the toggle action and
\* the report to the owning area
toggleViewInternalSync(S, w, Open) ==
  LET S2 == [S EXCEPT !.d[w].Closed = ~Open]
      S3 == ActionBlockSignals(
              ActionSetChecked(ActionBlockSignals(S2, w, TRUE), w, Open),
              w, FALSE)
  IN IF S3.d[w].DockArea # NoArea
     THEN toggleDockWidgetView(S3, S3.d[w].DockArea, w, Open)
     ELSE S3

\* mutant: the widget that was top level before is told on a close as well
toggleViewInternalTopLevel_BeforeAlways(S, w, Open, TopLevelDockWidgetBefore) ==
  LET S5 == IF TopLevelDockWidgetBefore # NoWidget
            THEN emitTopLevelEventForWidget(S, TopLevelDockWidgetBefore, FALSE)
            ELSE S
      DockContainer == dockContainer(S5, w)
      TopLevelDockWidgetAfter ==
        IF DockContainer # NoContainer
        THEN topLevelDockWidget(S5, DockContainer) ELSE NoWidget
  IN emitTopLevelEventForWidget(S5, TopLevelDockWidgetAfter, TRUE)

\* lines 464-475: the top level events for the widget that was top level
\* before and for the one that is top level now
toggleViewInternalTopLevel(S, w, Open, TopLevelDockWidgetBefore) ==
  LET S5 == IF Open /\ TopLevelDockWidgetBefore # NoWidget
            THEN emitTopLevelEventForWidget(S, TopLevelDockWidgetBefore, FALSE)
            ELSE S
      DockContainer == dockContainer(S5, w)
      TopLevelDockWidgetAfter ==
        IF DockContainer # NoContainer
        THEN topLevelDockWidget(S5, DockContainer) ELSE NoWidget
  IN emitTopLevelEventForWidget(S5, TopLevelDockWidgetAfter, TRUE)

\* lines 476-480: DockContainer->floatingWidget() and the title refresh
toggleViewInternalTitle(S, w, ub) ==
  LET DockContainer == dockContainer(S, w) IN
  IF DockContainer = NoContainer
  THEN LET N == [S EXCEPT !.fx.nullDeref = TRUE, !.fx.outcome = ub] IN
       CASE ub = "fault" -> [N EXCEPT !.fx.crashed = TRUE]
         [] ub = "null"  -> N
         [] OTHER        -> updateWindowTitle(N, NoContainer)
  ELSE IF ContainerIsFloating(DockContainer)
       THEN updateWindowTitle(S, DockContainer)
       ELSE S

\* lines 482-486
toggleViewInternalNotify(S, w, Open) ==
  LET S8 == IF ~Open THEN Emit(S, "closed", w, FALSE) ELSE S
  IN Emit(S8, "viewToggled", w, Open)

toggleViewInternal(S, w, Open, ub) ==
  LET DockContainer0 == dockContainer(S, w)
      TopLevelDockWidgetBefore ==
        IF DockContainer0 # NoContainer
        THEN topLevelDockWidget(S, DockContainer0) ELSE NoWidget
      S0 == [S EXCEPT !.fx.internal = @ + 1]
      S1 == IF Open THEN showDockWidget(S0, w) ELSE hideDockWidget(S0, w)
      S4 == toggleViewInternalSync(S1, w, Open)
      S6 == toggleViewInternalTopLevel(S4, w, Open, TopLevelDockWidgetBefore)
      S7 == toggleViewInternalTitle(S6, w, ub)
  IN IF S7.fx.crashed THEN S7 ELSE toggleViewInternalNotify(S7, w, Open)

\* mutant: no check of the current state
toggleView_AlwaysInternal(S, w, OpenArg, SenderIsAction, ub) ==
  LET Open == IF SenderIsAction /\ ~S.action[w].checkable THEN TRUE ELSE OpenArg
  IN toggleViewInternal(S, w, Open, ub)

\* mutant: a widget that is not closable is not closed
toggleView_ChecksClosable(S, w, OpenArg, SenderIsAction, ub) ==
  LET Open == IF SenderIsAction /\ ~S.action[w].checkable THEN TRUE ELSE OpenArg
  IN IF ~Open /\ "DockWidgetClosable" \notin S.d[w].Features THEN S
     ELSE IF S.d[w].Closed # ~Open
     THEN toggleViewInternal(S, w, Open, ub)
     ELSE IF Open /\ S.d[w].DockArea # NoArea
          THEN setCurrentDockWidget(S, S.d[w].DockArea, w)
          ELSE S

toggleView(S, w, OpenArg, SenderIsAction, ub) ==
  LET Open == IF SenderIsAction /\ ~S.action[w].checkable THEN TRUE ELSE OpenArg
  IN IF S.d[w].Closed # ~Open
     THEN toggleViewInternal(S, w, Open, ub)
     ELSE IF Open /\ S.d[w].DockArea # NoArea
          THEN setCurrentDockWidget(S, S.d[w].DockArea, w)
          ELSE S

(***************************************************************************)
(* Title, icon, tool bar and features                                      *)
(***************************************************************************)
\* mutant: the toggle action keeps its text
event_TabOnly(S, w) ==
  LET title == S.frame[w].title
      S1 == [S EXCEPT !.tab[w].text = title]
      S3 == IF S1.d[w].DockArea # NoArea
            THEN markTitleBarMenuOutdated(S1, S1.d[w].DockArea)
            ELSE S1
  IN Emit(S3, "titleChanged", w, title)

\* event(e) for e->type() == QEvent::WindowTitleChange; the tab and the
\* toggle action exist from the constructor on
event(S, w) ==
  LET title == S.frame[w].title
      S1 == [S EXCEPT !.tab[w].text = title]
      S2 == [S1 EXCEPT !.action[w].text = title]
      S3 == IF S2.d[w].DockArea # NoArea
            THEN markTitleBarMenuOutdated(S2, S2.d[w].DockArea)
            ELSE S2
  IN Emit(S3, "titleChanged", w, title)

setFeatures(S, w, features) == [S EXCEPT !.d[w].Features = features]

\* mutant: the flags given are the only ones left
setFeature_Overwrites(S, w, flag, on) ==
  [S EXCEPT !.d[w].Features = IF on THEN flag ELSE NoDockWidgetFeatures]

\* d->Features.setFlag(flag, on), or |= flag and &= ~flag
setFeature(S, w, flag, on) ==
  IF on
  THEN [S EXCEPT !.d[w].Features = @ \cup flag]
  ELSE [S EXCEPT !.d[w].Features = @ \ flag]

features(S, w) == S.d[w].Features

\* mutant: the toggle action never takes the icon
setIcon_TabOnly(S, w, Icon) == [S EXCEPT !.tab[w].icon = Icon]

setIcon(S, w, Icon) ==
  LET S1 == [S EXCEPT !.tab[w].icon = Icon] IN
  IF ~S1.action[w].checkable THEN ActionSetIcon(S1, w, Icon) ELSE S1

icon(S, w) == S.tab[w].icon

\* new QToolBar(_this), setIconSize(QSize(16, 16)) and one more connection of
\* topLevelChanged(bool) to setToolbarFloatingStyle(bool)
setupToolBar(S, w) ==
  LET S1 == [S EXCEPT !.d[w].ToolBar = TRUE, !.toolbar[w] = ToolBarInit]
      S2 == Call([S1 EXCEPT !.toolbar[w].iconSize = IconSizeDocked],
                 "setIconSize", w, IconSizeDocked)
  IN [S2 EXCEPT !.frame[w].slots = @ + 1]

createDefaultToolBar(S, w) ==
  IF ~S.d[w].ToolBar THEN setupToolBar(S, w) ELSE S

\* a QToolBar* handed to setToolBar: null, or a tool bar of the caller with
\* its own icon size and button style
NullToolBar ==
  [isNull |-> TRUE, iconSize |-> ToolBarInit.iconSize, style |-> ToolBarInit.style]

NewToolBars ==
  {NullToolBar} \cup
  [isNull : {FALSE}, iconSize : IconSizes, style : ToolButtonStyles]

setToolBar(S, w, ToolBar) ==
  LET \* delete d->ToolBar; d->ToolBar = ToolBar; one more connection
      S1 == [S EXCEPT !.d[w].ToolBar = ~ToolBar.isNull,
                      !.toolbar[w] = [iconSize |-> ToolBar.iconSize,
                                      style |-> ToolBar.style],
                      !.frame[w].slots = @ + 1]
  IN setToolbarFloatingStyle(S1, w, isFloating(S1, w))

setToolBarStyle(S, w, Style, State) ==
  LET S1 == IF State = "StateFloating"
            THEN [S EXCEPT !.d[w].ToolBarStyleFloating = Style]
            ELSE [S EXCEPT !.d[w].ToolBarStyleDocked = Style]
  IN setToolbarFloatingStyle(S1, w, isFloating(S1, w))

toolBarStyle(S, w, State) ==
  IF State = "StateFloating" THEN S.d[w].ToolBarStyleFloating
  ELSE S.d[w].ToolBarStyleDocked

setToolBarIconSize(S, w, IconSize, State) ==
  LET S1 == IF State = "StateFloating"
            THEN [S EXCEPT !.d[w].ToolBarIconSizeFloating = IconSize]
            ELSE [S EXCEPT !.d[w].ToolBarIconSizeDocked = IconSize]
  IN setToolbarFloatingStyle(S1, w, isFloating(S1, w))

toolBarIconSize(S, w, State) ==
  IF State = "StateFloating" THEN S.d[w].ToolBarIconSizeFloating
  ELSE S.d[w].ToolBarIconSizeDocked

(***************************************************************************)
(* The state machine                                                       *)
(***************************************************************************)
\* what a call found when it started
Before(w) ==
  LET a == d[w].DockArea IN
  [Closed |-> d[w].Closed, DockArea |-> a,
   checkable |-> action[w].checkable, checked |-> action[w].checked,
   others |-> IF a = NoArea THEN {} ELSE openedDockWidgets(World, a) \ {w},
   topLevel |-> IF a = NoArea THEN NoWidget
                ELSE topLevelDockWidget(World, AreaDockContainer(a)),
   areaVisible |-> IF a = NoArea THEN FALSE ELSE area[a].visible,
   splitterHidden |-> IF a = NoArea THEN AreaInit.splitterHidden
                      ELSE area[a].splitterHidden,
   floatShown |-> IF a = NoArea THEN FALSE ELSE area[a].floatShown,
   current |-> IF a = NoArea THEN NoWidget ELSE area[a].current,
   Features |-> [x \in Widgets |-> d[x].Features]]

NoBefore ==
  [Closed |-> FALSE, DockArea |-> NoArea, checkable |-> TRUE, checked |-> FALSE,
   others |-> {}, topLevel |-> NoWidget, areaVisible |-> FALSE,
   splitterHidden |-> AreaInit.splitterHidden, floatShown |-> FALSE,
   current |-> NoWidget,
   Features |-> [x \in Widgets |-> AllDockWidgetFeatures]]

NoCall ==
  [op |-> "none", w |-> NoWidget, open |-> FALSE, sender |-> "none",
   before |-> NoBefore, fx |-> NoFx]

(***************************************************************************)
(* Reading the record of a call                                            *)
(***************************************************************************)
IsToggleView(c) == c.op = "toggleView"

\* the state a toggleView call asks for, after the show-only override
EffectiveOpen(c) ==
  IF c.sender = "action" /\ ~c.before.checkable THEN TRUE ELSE c.open

Completed(c) == ~c.fx.crashed

RealTransition(c) == IsToggleView(c) /\ c.fx.internal > 0

RealOpen(c) == RealTransition(c) /\ EffectiveOpen(c)

RealClose(c) == RealTransition(c) /\ ~EffectiveOpen(c)

NumCalls(c, fn, a, arg) ==
  Cardinality({i \in DOMAIN c.fx.calls :
                 c.fx.calls[i] = [fn |-> fn, on |-> a, arg |-> arg]})

NumCallsOf(c, fn) ==
  Cardinality({i \in DOMAIN c.fx.calls : c.fx.calls[i].fn = fn})

NumSignals(c, sig, w) ==
  Cardinality({i \in DOMAIN c.fx.signals :
                 c.fx.signals[i].sig = sig /\ c.fx.signals[i].w = w})

\* what is kept of the call before the last one: of a toggleView call its
\* widget, what it asked for, what it found and what it did
Summary(c) ==
  IF ~IsToggleView(c)
  THEN [op |-> "other", w |-> NoWidget, open |-> FALSE, closedBefore |-> FALSE,
        areaBefore |-> NoArea, internal |-> 0, viewToggled |-> 0,
        setCurrentThis |-> 0]
  ELSE
  [op |-> c.op, w |-> c.w, open |-> EffectiveOpen(c),
   closedBefore |-> c.before.Closed, areaBefore |-> c.before.DockArea,
   internal |-> c.fx.internal,
   viewToggled |-> NumSignals(c, "viewToggled", c.w),
   setCurrentThis |-> NumCalls(c, "setCurrentDockWidget", c.before.DockArea, c.w)]

\* the values of the topLevelChanged(bool) signals a call made w emit
TopLevelChangedOf(fx, w) ==
  LET f == SelectSeq(fx.signals,
                     LAMBDA s : s.sig = "topLevelChanged" /\ s.w = w)
  IN [i \in 1..Len(f) |-> f[i].arg]

TypeOK ==
  /\ d \in [Widgets -> [Closed : BOOLEAN, DockArea : Areas \cup {NoArea},
                        IsFloatingTopLevel : BOOLEAN, ToolBar : BOOLEAN,
                        Features : DockWidgetFeatures,
                        ToolBarStyleDocked : STRING, ToolBarStyleFloating : STRING,
                        ToolBarIconSizeDocked : Nat, ToolBarIconSizeFloating : Nat]]
  /\ action \in [Widgets -> [checkable : BOOLEAN, checked : BOOLEAN,
                             blocked : BOOLEAN, icon : Icons, text : Titles]]
  /\ \A w \in Widgets : tab[w].text \in Titles /\ frame[w].title \in Titles
  /\ \A w \in Widgets : tab[w].hidden \in BOOLEAN /\ frame[w].hidden \in BOOLEAN
  /\ \A a \in Areas : area[a].current \in Widgets \cup {NoWidget}
  /\ crashed \in BOOLEAN /\ hist \in BOOLEAN

InitObjects ==
  /\ d = [w \in Widgets |-> DockWidgetPrivateInit]
  /\ action = [w \in Widgets |-> ActionInit]
  /\ tab = [w \in Widgets |-> TabInit]
  /\ frame = [w \in Widgets |-> FrameInit]
  /\ toolbar = [w \in Widgets |-> ToolBarInit]
  /\ area = [a \in Areas |-> AreaInit]
  /\ last = NoCall
  /\ prev = Summary(NoCall)
  /\ crashed = FALSE
  /\ calls = 0
  /\ topLevelChangedLog = [w \in Widgets |-> <<>>]

Init == InitObjects /\ hist = FALSE

\* the same machine, remembering the call before the last one as well
InitHistory == InitObjects /\ hist = TRUE

\* a run ends with the call that runs into undefined behaviour, whether the
\* call faults or returns
Running == ~crashed /\ ~last.fx.nullDeref

Commit(S, op, w, open, sender) ==
  LET T == CollectAreas(S) IN
  /\ calls < MaxCalls
  /\ calls' = calls + 1
  /\ d' = T.d
  /\ action' = T.action
  /\ tab' = T.tab
  /\ frame' = T.frame
  /\ toolbar' = T.toolbar
  /\ area' = T.area
  /\ last' = [op |-> op, w |-> w, open |-> open, sender |-> sender,
              before |-> Before(w), fx |-> T.fx]
  /\ prev' = IF hist THEN Summary(last) ELSE prev
  /\ crashed' = T.fx.crashed
  /\ hist' = hist
  /\ topLevelChangedLog' =
       [x \in Widgets |-> topLevelChangedLog[x] \o TopLevelChangedOf(T.fx, x)]

\* the outcomes of the undefined behaviour a call runs into, if it does: the
\* call is a real close (line 429) of a widget that has no dock area, and so
\* no dock container at line 472
Outcomes(S, w, Open, SenderIsAction) ==
  IF /\ S.d[w].DockArea = NoArea
     /\ ~S.d[w].Closed
     /\ ~(IF SenderIsAction /\ ~S.action[w].checkable THEN TRUE ELSE Open)
  THEN NullDerefOutcomes ELSE {"defined"}

\* toggleView(Open) called by anything but the widget's own toggle action
ToggleView(w, Open) ==
  /\ Running
  /\ \E ub \in Outcomes(World, w, Open, FALSE) :
       Commit(toggleView(World, w, Open, FALSE, ub), "toggleView", w, Open, "other")

\* the toggle action is triggered: a checkable action flips its checked state
\* and carries the new one, a non-checkable action carries a boolean the slot
\* makes no use of
TriggerToggleViewAction(w, b) ==
  /\ Running
  /\ action[w].checkable => b = ~action[w].checked
  /\ LET S == IF action[w].checkable
              THEN [World EXCEPT !.action[w].checked = b]
              ELSE World
     IN \E ub \in Outcomes(S, w, b, TRUE) :
          Commit(toggleView(S, w, b, TRUE, ub), "toggleView", w, b, "action")

\* a dock area takes the widget: CDockAreaWidget hands itself to setDockArea
AddDockWidget(a, w) ==
  /\ Running
  /\ d[w].DockArea # a
  \* floating slots are interchangeable: a new floating area takes the first
  /\ (a \in FloatingAreas /\ dockWidgets(World, a) = {}) =>
       a = Min({x \in FloatingAreas : dockWidgets(World, x) \subseteq {w}})
  /\ LET old == d[w].DockArea
         S1 == IF old # NoArea THEN AreaRemoveDockWidget(World, old, w) ELSE World
         S2 == IF dockWidgets(S1, a) = {}
               THEN [S1 EXCEPT !.area[a] =
                       [AreaInit EXCEPT !.floatShown = ContainerIsFloating(a)]]
               ELSE S1
         S3 == AreaInsertDockWidget(S2, a, w)
     IN Commit(setDockArea(S3, w, a), "setDockArea", w, FALSE, "area")

FlagAsUnassigned(w) ==
  /\ Running
  /\ Commit(flagAsUnassigned(World, w), "flagAsUnassigned", w, FALSE, "manager")

\* the setters are taken as steps when they change something
SetClosedState(w, Closed) ==
  /\ Running
  /\ setClosedState(World, w, Closed) # World
  /\ Commit(setClosedState(World, w, Closed), "setClosedState", w, Closed, "manager")

SetToggleViewActionMode(w, Mode) ==
  /\ Running
  /\ setToggleViewActionMode(World, w, Mode) # World
  /\ Commit(setToggleViewActionMode(World, w, Mode),
            "setToggleViewActionMode", w, Mode = "ActionModeToggle", "user")

SetToggleViewActionChecked(w, Checked) ==
  /\ Running
  /\ setToggleViewActionChecked(World, w, Checked) # World
  /\ Commit(setToggleViewActionChecked(World, w, Checked),
            "setToggleViewActionChecked", w, Checked, "manager")

Next ==
  \/ \E w \in Widgets, Open \in BOOLEAN : ToggleView(w, Open)
  \/ \E w \in Widgets, b \in BOOLEAN : TriggerToggleViewAction(w, b)
  \/ \E a \in Areas, w \in Widgets : AddDockWidget(a, w)
  \/ \E w \in Widgets : FlagAsUnassigned(w)
  \/ \E w \in Widgets, Closed \in BOOLEAN : SetClosedState(w, Closed)
  \/ \E w \in Widgets, Mode \in {"ActionModeToggle", "ActionModeShow"} :
       SetToggleViewActionMode(w, Mode)
  \/ \E w \in Widgets, Checked \in BOOLEAN : SetToggleViewActionChecked(w, Checked)

\* QWidget::setWindowTitle with a new title sends the widget a
\* WindowTitleChange event
SetWindowTitle(w, title) ==
  /\ Running
  /\ title # frame[w].title
  /\ Commit(event([World EXCEPT !.frame[w].title = title], w),
            "event", w, FALSE, "user")

CreateDefaultToolBar(w) ==
  /\ Running
  /\ createDefaultToolBar(World, w) # World
  /\ Commit(createDefaultToolBar(World, w), "createDefaultToolBar", w, FALSE, "user")

SetToolBar(w, ToolBar) ==
  /\ Running
  /\ Commit(setToolBar(World, w, ToolBar), "setToolBar", w, FALSE, "user")

SetToolBarStyle(w, Style, State) ==
  /\ Running
  /\ setToolBarStyle(World, w, Style, State) # World
  /\ Commit(setToolBarStyle(World, w, Style, State),
            "setToolBarStyle", w, State = "StateFloating", "user")

SetToolBarIconSize(w, IconSize, State) ==
  /\ Running
  /\ setToolBarIconSize(World, w, IconSize, State) # World
  /\ Commit(setToolBarIconSize(World, w, IconSize, State),
            "setToolBarIconSize", w, State = "StateFloating", "user")

\* a step of the layout around the dock widgets, not a call on one of them
LayoutStep(op, newArea) ==
  /\ Running
  /\ calls < MaxCalls
  /\ calls' = calls + 1
  /\ area' = newArea
  /\ last' = [NoCall EXCEPT !.op = op]
  /\ prev' = IF hist THEN Summary(last) ELSE prev
  /\ UNCHANGED <<d, action, tab, frame, toolbar, crashed, hist, topLevelChangedLog>>

\* the i-th splitter above the dock area a is hidden
HideSplitter(a, i) ==
  /\ dockWidgets(World, a) # {}
  /\ ~area[a].splitterHidden[i]
  /\ LayoutStep("hideSplitter", [area EXCEPT ![a].splitterHidden[i] = TRUE])

\* the floating container of the dock area a is hidden
HideFloatingWidget(a) ==
  /\ a \in FloatingAreas
  /\ dockWidgets(World, a) # {}
  /\ area[a].floatShown
  /\ LayoutStep("hideFloatingWidget", [area EXCEPT ![a].floatShown = FALSE])

SetIcon(w, Icon) ==
  /\ Running
  /\ setIcon(World, w, Icon) # World
  /\ Commit(setIcon(World, w, Icon), "setIcon", w, Icon # NoIcon, "user")

SetFeatures(w, F) ==
  /\ Running
  /\ setFeatures(World, w, F) # World
  /\ Commit(setFeatures(World, w, F), "setFeatures", w, FALSE, "user")

SetFeature(w, flag, on) ==
  /\ Running
  /\ setFeature(World, w, flag, on) # World
  /\ Commit(setFeature(World, w, flag, on), "setFeature", w, on, "user")

\* the dock container or the floating container sends a top level event to
\* a dock widget of its own
TopLevelEvent(w, Floating) ==
  /\ Running
  /\ d[w].DockArea # NoArea
  /\ Commit(emitTopLevelEventForWidget(World, w, Floating),
            "emitTopLevelEventForWidget", w, Floating, "container")

Spec == Init /\ [][Next]_vars

SpecHistory == InitHistory /\ [][Next]_vars

\* the visibility calls together with title changes
NextTitle ==
  \/ \E w \in Widgets, Open \in BOOLEAN : ToggleView(w, Open)
  \/ \E a \in Areas, w \in Widgets : AddDockWidget(a, w)
  \/ \E w \in Widgets : FlagAsUnassigned(w)
  \/ \E w \in Widgets, title \in Titles : SetWindowTitle(w, title)

SpecTitle == Init /\ [][NextTitle]_vars

\* the tool bar of a dock widget is read and written through that widget
\* alone: the tool bar calls are made on the first widget, the visibility
\* calls on all of them
ToolBarWidgets == {Min(Widgets)}

NextToolBar ==
  \/ \E w \in Widgets, Open \in BOOLEAN : ToggleView(w, Open)
  \/ \E a \in Areas, w \in Widgets : AddDockWidget(a, w)
  \/ \E w \in Widgets : FlagAsUnassigned(w)
  \/ \E w \in ToolBarWidgets : CreateDefaultToolBar(w)
  \/ \E w \in ToolBarWidgets, ToolBar \in NewToolBars : SetToolBar(w, ToolBar)
  \/ \E w \in ToolBarWidgets, Style \in ToolButtonStyles, State \in States :
       SetToolBarStyle(w, Style, State)
  \/ \E w \in ToolBarWidgets, IconSize \in IconSizes, State \in States :
       SetToolBarIconSize(w, IconSize, State)
  \/ \E w \in ToolBarWidgets, Floating \in BOOLEAN : TopLevelEvent(w, Floating)

SpecToolBar == Init /\ [][NextToolBar]_vars

\* the visibility calls together with the icon and the action mode
NextIcon ==
  \/ \E w \in Widgets, Open \in BOOLEAN : ToggleView(w, Open)
  \/ \E w \in Widgets, b \in BOOLEAN : TriggerToggleViewAction(w, b)
  \/ \E a \in Areas, w \in Widgets : AddDockWidget(a, w)
  \/ \E w \in Widgets, Icon \in Icons : SetIcon(w, Icon)
  \/ \E w \in Widgets, Mode \in {"ActionModeToggle", "ActionModeShow"} :
       SetToggleViewActionMode(w, Mode)

SpecIcon == Init /\ [][NextIcon]_vars

\* the visibility calls together with the top level events of the containers
NextTopLevel ==
  \/ \E w \in Widgets, Open \in BOOLEAN : ToggleView(w, Open)
  \/ \E a \in Areas, w \in Widgets : AddDockWidget(a, w)
  \/ \E w \in Widgets : FlagAsUnassigned(w)
  \/ \E w \in Widgets, Floating \in BOOLEAN : TopLevelEvent(w, Floating)

SpecTopLevel == Init /\ [][NextTopLevel]_vars

\* the features of a dock widget are read and written through that widget
\* alone: the feature calls are made on the first widget, the visibility
\* calls on all of them
FeatureWidgets == {Min(Widgets)}

NextFeatures ==
  \/ \E w \in Widgets, Open \in BOOLEAN : ToggleView(w, Open)
  \/ \E a \in Areas, w \in Widgets : AddDockWidget(a, w)
  \/ \E w \in Widgets : FlagAsUnassigned(w)
  \/ \E w \in FeatureWidgets, F \in DockWidgetFeatures : SetFeatures(w, F)
  \/ \E w \in FeatureWidgets, flag \in DockWidgetFeature, on \in BOOLEAN :
       SetFeature(w, flag, on)

SpecFeatures == Init /\ [][NextFeatures]_vars

\* the visibility calls in a layout whose splitters and floating containers
\* get hidden
NextSplitter ==
  \/ \E w \in Widgets, Open \in BOOLEAN : ToggleView(w, Open)
  \/ \E a \in Areas, w \in Widgets : AddDockWidget(a, w)
  \/ \E a \in Areas, i \in 1..SplitterDepth : HideSplitter(a, i)
  \/ \E a \in Areas : HideFloatingWidget(a)

SpecSplitter == Init /\ [][NextSplitter]_vars

Assigned(w) == d[w].DockArea # NoArea

(***************************************************************************)
(* C1: toggleView is total: a toggleView call on any reachable widget      *)
(* state completes, and toggleViewInternal never reaches                   *)
(* DockContainer->floatingWidget() with a null dock container.             *)
(* The code does not keep this: see C1_NullContainerReached.               *)
(***************************************************************************)
C1_ToggleViewTotal ==
  IsToggleView(last) => ~last.fx.nullDeref /\ Completed(last)

\* where it fails: a close of an open widget that has no dock area, and
\* there with one of the outcomes of the undefined behaviour
C1_NullContainerOnlyOnUnassignedClose ==
  /\ last.fx.nullDeref <=>
       /\ IsToggleView(last)
       /\ last.before.DockArea = NoArea
       /\ ~last.before.Closed
       /\ ~EffectiveOpen(last)
  /\ last.fx.nullDeref <=> last.fx.outcome \in NullDerefOutcomes

(***************************************************************************)
(* C2: after a toggleView call completes isClosed() is the negation of the *)
(* effective requested state, and for an assigned widget the area's record *)
(* of the widget being open equals !isClosed().                            *)
(***************************************************************************)
AreaRecordsOpen(w) == w \in area[d[w].DockArea].opened

\* the claim as stated: violated by a call that finds the requested state
\* already set by setClosedState
C2_Original ==
  IsToggleView(last) /\ Completed(last) =>
    /\ d[last.w].Closed = ~EffectiveOpen(last)
    /\ Assigned(last.w) => (AreaRecordsOpen(last.w) = ~d[last.w].Closed)

\* C2 amended: the closed flag as claimed after every completed call; the
\* area's record equals !isClosed() after every completed real transition
\* that leaves the widget assigned
C2_ClosedIsNotRequested ==
  IsToggleView(last) /\ Completed(last) =>
    /\ d[last.w].Closed = ~EffectiveOpen(last)
    /\ RealTransition(last) /\ Assigned(last.w) =>
         (AreaRecordsOpen(last.w) = ~d[last.w].Closed)

C2_Witness ==
  /\ RealOpen(last) /\ Completed(last)
  /\ last.before.DockArea = NoArea
  /\ Assigned(last.w) /\ AreaRecordsOpen(last.w) /\ ~d[last.w].Closed

(***************************************************************************)
(* C3: the toggle action's checked state equals (dock area non-null and    *)
(* widget not closed) after every setDockArea call and every real          *)
(* toggleView transition.                                                  *)
(***************************************************************************)
AfterSetDockAreaOrTransition ==
  \/ last.op \in {"setDockArea", "flagAsUnassigned"}
  \/ RealTransition(last)

\* the claim as stated: violated in show-only mode, where the action is not
\* checkable and so never checked
C3_Original ==
  AfterSetDockAreaOrTransition =>
    (action[last.w].checked = (Assigned(last.w) /\ ~d[last.w].Closed))

\* C3 amended: checked equals (action checkable and dock area non-null and
\* widget not closed)
C3_CheckedIffCheckableAssignedOpen ==
  AfterSetDockAreaOrTransition =>
    (action[last.w].checked =
       (action[last.w].checkable /\ Assigned(last.w) /\ ~d[last.w].Closed))

\* a real open transition in show-only mode
C3_Witness ==
  /\ RealOpen(last)
  /\ ~action[last.w].checkable /\ ~action[last.w].checked
  /\ Assigned(last.w) /\ ~d[last.w].Closed

(***************************************************************************)
(* C4: for a closed widget assigned to an area, toggleView(true) followed  *)
(* immediately by toggleView(true) makes exactly one real transition and   *)
(* one viewToggled, and exactly one setCurrentDockWidget(this) across the  *)
(* two calls.  Checked under SpecHistory.                                  *)
(***************************************************************************)
OpenTwice ==
  /\ IsToggleView(prev) /\ prev.open
  /\ prev.closedBefore /\ prev.areaBefore # NoArea
  /\ IsToggleView(last) /\ EffectiveOpen(last) /\ last.w = prev.w

\* the claim as stated: violated, the second call makes the widget current
\* once more
C4_Original ==
  OpenTwice =>
    /\ prev.internal + last.fx.internal = 1
    /\ prev.viewToggled + NumSignals(last, "viewToggled", last.w) = 1
    /\ prev.setCurrentThis
         + NumCalls(last, "setCurrentDockWidget", d[last.w].DockArea, last.w) = 1

\* C4 amended: one real transition and one viewToggled across the two calls,
\* and one setCurrentDockWidget(this) in each call (two in all), the second
\* on an area whose current widget is this widget already
C4_OneTransitionTwoCurrentUpdates ==
  OpenTwice =>
    /\ prev.internal = 1 /\ last.fx.internal = 0
    /\ prev.viewToggled = 1
    /\ last.fx.signals = <<>>
    /\ prev.areaBefore = d[last.w].DockArea
    /\ prev.setCurrentThis = 1
    /\ NumCalls(last, "setCurrentDockWidget", d[last.w].DockArea, last.w) = 1
    /\ last.before.current = last.w
    /\ area[d[last.w].DockArea].current = last.w

C4_Witness == OpenTwice /\ ~d[last.w].Closed /\ action[last.w].checked

(***************************************************************************)
(* C5: a real close of an assigned widget that is the only open widget of  *)
(* its area hides the tab, calls hideAreaWithNoVisibleContent and leaves   *)
(* the area hidden; after a real close the widget's area is not visible    *)
(* with zero open widgets.                                                 *)
(***************************************************************************)
C5_LastOpenWidgetHidesArea ==
  RealClose(last) /\ last.before.DockArea # NoArea =>
    LET a == last.before.DockArea IN
    /\ d[last.w].DockArea = a
    /\ last.before.others = {} =>
         /\ tab[last.w].hidden
         /\ NumCalls(last, "hideAreaWithNoVisibleContent", a, 0) = 1
         /\ ~area[a].visible
    /\ openedDockWidgets(World, a) = {} => ~area[a].visible

C5_Witness ==
  /\ RealClose(last) /\ last.before.DockArea # NoArea
  /\ last.before.others = {} /\ last.before.areaVisible
  /\ dockWidgets(World, last.before.DockArea) # {last.w}
  /\ ~area[last.before.DockArea].visible

(***************************************************************************)
(* C6: a real close of an assigned widget whose area has another open      *)
(* widget leaves the area's visibility as it was, does not call            *)
(* hideAreaWithNoVisibleContent, and makes current an open widget of the   *)
(* area other than the one being closed.                                   *)
(***************************************************************************)
C6_NextOpenWidgetBecomesCurrent ==
  RealClose(last) /\ last.before.DockArea # NoArea /\ last.before.others # {} =>
    LET a == last.before.DockArea IN
    /\ area[a].visible = last.before.areaVisible
    /\ NumCallsOf(last, "hideAreaWithNoVisibleContent") = 0
    /\ area[a].current \in openedDockWidgets(World, a)
    /\ area[a].current \in last.before.others
    /\ area[a].current # last.w
    /\ NumCalls(last, "setCurrentDockWidget", a, area[a].current) = 1
    /\ NumCallsOf(last, "setCurrentDockWidget") = 1

C6_Witness ==
  /\ RealClose(last) /\ last.before.DockArea # NoArea /\ last.before.others # {}
  /\ last.before.current = last.w /\ last.before.areaVisible
  /\ area[last.before.DockArea].visible
  /\ area[last.before.DockArea].current # last.w

(***************************************************************************)
(* C7: toggleView(true) on an unassigned, closed widget creates exactly    *)
(* one new floating container holding the widget and shows it; afterwards  *)
(* the widget has a dock container, isClosed() is false and the toggle     *)
(* action is checked.                                                      *)
(***************************************************************************)
OpenUnassigned ==
  /\ IsToggleView(last) /\ EffectiveOpen(last)
  /\ last.before.DockArea = NoArea /\ last.before.Closed

FloatsAlone(w) ==
  /\ NumCallsOf(last, "newFloatingDockContainer") = 1
  /\ NumCalls(last, "newFloatingDockContainer", d[w].DockArea, w) = 1
  /\ NumCalls(last, "FloatingWidget.show", d[w].DockArea, 0) = 1
  /\ dockContainer(World, w) # NoContainer
  /\ ContainerIsFloating(dockContainer(World, w))
  /\ dockWidgets(World, d[w].DockArea) = {w}
  /\ area[d[w].DockArea].floatShown
  /\ ~d[w].Closed

\* the claim as stated: violated in show-only mode
C7_Original ==
  OpenUnassigned => FloatsAlone(last.w) /\ action[last.w].checked

\* C7 amended: the toggle action is checked if it is checkable (it stays
\* unchecked in show-only mode)
C7_OpenUnassignedFloats ==
  OpenUnassigned =>
    FloatsAlone(last.w) /\ (action[last.w].checked = action[last.w].checkable)

C7_Witness ==
  OpenUnassigned /\ Completed(last) /\ action[last.w].checked
    /\ d[last.w].DockArea \in FloatingAreas

(***************************************************************************)
(* C8: flagAsUnassigned always leaves the widget closed, without dock      *)
(* area, its action unchecked, hidden, parented under the dock manager,    *)
(* its tab parented under the widget; it emits neither closed nor          *)
(* viewToggled.                                                            *)
(***************************************************************************)
C8_FlagAsUnassigned ==
  last.op = "flagAsUnassigned" =>
    /\ d[last.w].Closed
    /\ d[last.w].DockArea = NoArea
    /\ ~action[last.w].checked
    /\ frame[last.w].hidden
    /\ frame[last.w].parent = "manager"
    /\ tab[last.w].parent = "widget"
    /\ last.fx.signals = <<>>

C8_Witness ==
  /\ last.op = "flagAsUnassigned"
  /\ ~last.before.Closed /\ last.before.DockArea # NoArea /\ last.before.checked
  /\ d[last.w].Closed /\ frame[last.w].hidden

(***************************************************************************)
(* C9: every programmatic update of the toggle action's checked state is   *)
(* made with the action's signals blocked: the action emits no             *)
(* notification of its own and toggleView is not entered again.            *)
(* The code does not keep this: setDockArea calls setChecked with the      *)
(* signals open.                                                           *)
(***************************************************************************)
C9_SilencedSync ==
  /\ last.fx.actionSignals = <<>>
  /\ last.fx.internal <= 1

\* what the code does keep: only setDockArea lets toggled(bool) out, and no
\* call enters toggleViewInternal twice
C9_OnlySetDockAreaEmits ==
  /\ last.fx.actionSignals # <<>> =>
       \/ last.op \in {"setDockArea", "flagAsUnassigned"}
       \/ NumCallsOf(last, "newFloatingDockContainer") = 1
  /\ last.fx.internal <= 1

(***************************************************************************)
(* C10: in show-only mode a toggleView call sent by the widget's own       *)
(* toggle action asks for open whatever boolean it carries, so the widget  *)
(* is never closed by triggering the action; toggleView(false) from any    *)
(* other sender, or from the action in checkable mode, still closes an     *)
(* open widget.                                                            *)
(* The second half fails with C1: the close of an open widget without a    *)
(* dock area runs into the null dock container.                            *)
(***************************************************************************)
ShowOnlyTrigger ==
  IsToggleView(last) /\ last.sender = "action" /\ ~last.before.checkable

PlainClose ==
  /\ IsToggleView(last) /\ ~last.open /\ ~last.before.Closed
  /\ last.sender = "other" \/ last.before.checkable

C10_ShowOnlyAlwaysOpens ==
  /\ ShowOnlyTrigger => Completed(last) /\ ~d[last.w].Closed
  /\ PlainClose => Completed(last) /\ ~last.fx.nullDeref /\ d[last.w].Closed

\* what the code does keep
C10_HoldsForAssigned ==
  /\ ShowOnlyTrigger => Completed(last) /\ ~d[last.w].Closed
  /\ PlainClose /\ last.before.DockArea # NoArea =>
       Completed(last) /\ ~last.fx.nullDeref /\ d[last.w].Closed

(***************************************************************************)
(* C11: across any sequence of toggleView calls, viewToggled(Open) is      *)
(* emitted exactly once per real transition and never for a call whose     *)
(* requested state equals the current state; closed is emitted exactly     *)
(* once per real close and never on an open; closed comes before           *)
(* viewToggled(false), and isClosed() shows the new state when they are    *)
(* emitted.                                                                *)
(* This fails with C1: a close that faults on the null dock container      *)
(* emits neither signal.                                                   *)
(***************************************************************************)
\* closed and viewToggled as the call emitted them, in order
ViewSignals(c) ==
  SelectSeq(c.fx.signals, LAMBDA s : s.sig \in {"closed", "viewToggled"})

\* the requested state differs from the current one
AsksTransition(c) == IsToggleView(c) /\ c.before.Closed # ~EffectiveOpen(c)

ViewSignal(sig, w, Open) ==
  [sig |-> sig, w |-> w, arg |-> Open, closed |-> ~Open]

C11_SignalsPerTransition ==
  IsToggleView(last) =>
    /\ AsksTransition(last) <=> RealTransition(last)
    /\ ~AsksTransition(last) => ViewSignals(last) = <<>>
    /\ AsksTransition(last) /\ EffectiveOpen(last) =>
         ViewSignals(last) = <<ViewSignal("viewToggled", last.w, TRUE)>>
    /\ AsksTransition(last) /\ ~EffectiveOpen(last) =>
         ViewSignals(last) = <<ViewSignal("closed", last.w, FALSE),
                               ViewSignal("viewToggled", last.w, FALSE)>>

\* what the code does keep: the same for every call that does not fault
C11_HoldsWhenCompleted ==
  IsToggleView(last) /\ Completed(last) =>
    /\ AsksTransition(last) <=> RealTransition(last)
    /\ ~AsksTransition(last) => ViewSignals(last) = <<>>
    /\ AsksTransition(last) /\ EffectiveOpen(last) =>
         ViewSignals(last) = <<ViewSignal("viewToggled", last.w, TRUE)>>
    /\ AsksTransition(last) /\ ~EffectiveOpen(last) =>
         ViewSignals(last) = <<ViewSignal("closed", last.w, FALSE),
                               ViewSignal("viewToggled", last.w, FALSE)>>

\* a real close of an assigned widget, both signals out
C11_CloseReached ==
  /\ RealClose(last) /\ last.before.DockArea # NoArea
  /\ Len(ViewSignals(last)) = 2

(***************************************************************************)
(* C12: on every real transition, open or close, a top level event is      *)
(* delivered to the widget that was the container's top level widget       *)
(* before the transition (floating = false) and to the widget that is the  *)
(* container's top level widget after it (floating = true), the latter     *)
(* taken from the container asked again after the show/hide step.          *)
(***************************************************************************)
TopLevelAfter(w) ==
  IF d[w].DockArea = NoArea THEN NoWidget
  ELSE topLevelDockWidget(World, dockContainer(World, w))

\* the top level events of a call: widget and value, in order
TopLevelEvents(c) ==
  [i \in DOMAIN c.fx.topLevelEvents |->
     <<c.fx.topLevelEvents[i].w, c.fx.topLevelEvents[i].floating>>]

HasTopLevelEvent(c, w, Floating) ==
  \E i \in DOMAIN c.fx.topLevelEvents : TopLevelEvents(c)[i] = <<w, Floating>>

\* the claim as stated: violated by a close, which tells the widget that was
\* top level before nothing
C12_Original ==
  RealTransition(last) =>
    /\ last.before.topLevel # NoWidget =>
         HasTopLevelEvent(last, last.before.topLevel, FALSE)
    /\ TopLevelAfter(last.w) # NoWidget =>
         HasTopLevelEvent(last, TopLevelAfter(last.w), TRUE)

\* C12 amended: the event with floating = false goes to the widget that was
\* top level before on a real open only; the event with floating = true goes
\* to the widget that is top level after every real transition; there are no
\* other top level events
C12_BeforeOnOpenAfterAlways ==
  RealTransition(last) =>
    LET b == last.before.topLevel
        a == TopLevelAfter(last.w)
    IN TopLevelEvents(last) =
         (IF EffectiveOpen(last) /\ b # NoWidget THEN << <<b, FALSE>> >> ELSE <<>>)
         \o (IF a # NoWidget THEN << <<a, TRUE>> >> ELSE <<>>)

\* an open next to the widget that was alone and top level in the container
C12_Witness ==
  /\ RealOpen(last) /\ last.before.topLevel \notin {NoWidget, last.w}
  /\ HasTopLevelEvent(last, last.before.topLevel, FALSE)
  /\ NumSignals(last, "topLevelChanged", last.before.topLevel) = 1
  /\ TopLevelAfter(last.w) = NoWidget

\* a close that leaves another widget alone and top level
C12_AfterReached ==
  /\ RealClose(last) /\ TopLevelAfter(last.w) \notin {NoWidget, last.w}
  /\ HasTopLevelEvent(last, TopLevelAfter(last.w), TRUE)

(***************************************************************************)
(* C18: for each widget the topLevelChanged notifications it emits         *)
(* alternate in value and start with true; the cached top level floating   *)
(* flag equals the value of the last emission (false if there is none); a  *)
(* top level event whose value equals the cached flag emits nothing.       *)
(* Checked under SpecTopLevel.                                             *)
(***************************************************************************)
C18_TopLevelChangedAlternates ==
  /\ \A w \in Widgets :
       LET log == topLevelChangedLog[w] IN
       /\ \A i \in DOMAIN log : log[i] = (i % 2 = 1)
       /\ d[w].IsFloatingTopLevel = (Len(log) > 0 /\ log[Len(log)])
  /\ \A i \in DOMAIN last.fx.topLevelEvents :
       LET e == last.fx.topLevelEvents[i] IN
       IF e.floating = e.cached
       THEN e.to = e.from
       ELSE /\ e.to = e.from + 1
            /\ last.fx.signals[e.to].sig = "topLevelChanged"
            /\ last.fx.signals[e.to].w = e.w
            /\ last.fx.signals[e.to].arg = e.floating

\* true and then false emitted by one widget
C18_Witness ==
  \E w \in Widgets :
    /\ topLevelChangedLog[w] = <<TRUE, FALSE>>
    /\ NumSignals(last, "topLevelChanged", w) = 1
    /\ ~d[w].IsFloatingTopLevel

\* a top level event that meets its own value in the cached flag
C18_SuppressedReached ==
  \E i \in DOMAIN last.fx.topLevelEvents :
    /\ last.fx.topLevelEvents[i].floating = last.fx.topLevelEvents[i].cached
    /\ last.fx.topLevelEvents[i].to = last.fx.topLevelEvents[i].from

Configured(S, w, Floating) ==
  [iconSize |-> toolBarIconSize(S, w, IF Floating THEN "StateFloating"
                                      ELSE "StateDocked"),
   style |-> toolBarStyle(S, w, IF Floating THEN "StateFloating"
                                ELSE "StateDocked")]

NumCallsOn(c, fn, w) ==
  Cardinality({i \in DOMAIN c.fx.calls :
                 c.fx.calls[i].fn = fn /\ c.fx.calls[i].on = w})

NumToolBarCalls(c, w) ==
  NumCallsOn(c, "setIconSize", w) + NumCallsOn(c, "setToolButtonStyle", w)

C14_ReapplyIsNoOp ==
  /\ \A w \in Widgets, Floating \in BOOLEAN :
       LET S1 == setToolbarFloatingStyle(World, w, Floating) IN
       \* nothing to do: no call
       /\ d[w].ToolBar /\ toolbar[w] = Configured(World, w, Floating) =>
            S1 = World
       \* applied once: the second time is no call
       /\ d[w].ToolBar => S1.toolbar[w] = Configured(World, w, Floating)
       /\ setToolbarFloatingStyle(S1, w, Floating) = S1
       \* one run of the slot per connection: as good as one run
       /\ \A n \in 1..(MaxCalls + 1) :
            RunTopLevelChangedSlots(World, w, Floating, n) = S1
  \* the calls as made: one topLevelChanged sets each of size and style once
  \* at most, however many connections there are
  /\ \A w \in Widgets :
       NumSignals(last, "topLevelChanged", w) = 1 =>
         /\ NumCallsOn(last, "setIconSize", w) <= 1
         /\ NumCallsOn(last, "setToolButtonStyle", w) <= 1

\* topLevelChanged(true) of a widget whose slot is connected twice: size and
\* style are set once each
C14_Witness ==
  \E w \in Widgets :
    /\ NumSignals(last, "topLevelChanged", w) = 1
    /\ frame[w].slots >= 2 /\ d[w].ToolBar
    /\ NumToolBarCalls(last, w) = 2
    /\ toolbar[w] = Configured(World, w, TRUE)
    /\ setToolbarFloatingStyle(World, w, TRUE) = World

(***************************************************************************)
(* C16: whenever a tool bar exists, after any sequence of                  *)
(* createDefaultToolBar, setToolBar, setToolBarStyle, setToolBarIconSize   *)
(* and top level changed notifications, the icon size and the button style *)
(* of the tool bar equal the values configured for the current floating    *)
(* state of the widget, also when the values were configured before the    *)
(* tool bar was created.                                                   *)
(* The code does not keep this: createDefaultToolBar sets QSize(16, 16)    *)
(* and does not apply what is configured.                                  *)
(***************************************************************************)
C16_ToolBarAsConfigured ==
  \A w \in Widgets :
    d[w].ToolBar => toolbar[w] = Configured(World, w, isFloating(World, w))

\* what the code does keep: setToolBar, setToolBarStyle and
\* setToolBarIconSize leave the tool bar as configured for isFloating(), and
\* a topLevelChanged leaves it as configured for the value it carries
C16_AppliedBySettersAndSignal ==
  /\ last.op \in {"setToolBar", "setToolBarStyle", "setToolBarIconSize"}
       /\ d[last.w].ToolBar =>
         toolbar[last.w] = Configured(World, last.w, isFloating(World, last.w))
  /\ \A w \in Widgets :
       d[w].ToolBar /\ NumSignals(last, "topLevelChanged", w) = 1 =>
         toolbar[w] = Configured(World, w, d[w].IsFloatingTopLevel)

\* a tool bar handed over with other values than the configured ones
C16_SetterReached ==
  /\ last.op = "setToolBar" /\ d[last.w].ToolBar
  /\ NumToolBarCalls(last, last.w) = 2

(***************************************************************************)
(* C15: after a real open of an assigned widget the owning area has been   *)
(* asked to become visible, the widget is the current widget of the area,  *)
(* its tab is shown, every splitter above the area is visible (the walk    *)
(* upwards ends and leaves no hidden splitter above the area, also when a  *)
(* visible splitter lies below a hidden one), and the owning floating      *)
(* container is shown if the container of the widget is floating.          *)
(* Checked under SpecSplitter.                                             *)
(***************************************************************************)
OpenAssigned == RealOpen(last) /\ last.before.DockArea # NoArea

C15_OpenShowsAreaTabSplitters ==
  OpenAssigned =>
    LET w == last.w
        a == last.before.DockArea
    IN /\ d[w].DockArea = a
       /\ NumCalls(last, "toggleView", a, 1) = 1
       /\ area[a].visible
       /\ NumCalls(last, "setCurrentDockWidget", a, w) = 1
       /\ area[a].current = w
       /\ ~tab[w].hidden
       /\ \A i \in 1..SplitterDepth :
            ~area[a].splitterHidden[i] /\ SplitterIsVisible(World, a, i)
       /\ ContainerIsFloating(AreaDockContainer(a)) =>
            /\ NumCalls(last, "FloatingWidget.show", AreaDockContainer(a), 0) = 1
            /\ area[a].floatShown

\* the splitter next to the area was shown, the one at the top was hidden
C15_Witness ==
  /\ OpenAssigned
  /\ ~last.before.splitterHidden[1]
  /\ last.before.splitterHidden[SplitterDepth]
  /\ ~area[last.before.DockArea].splitterHidden[SplitterDepth]
  /\ area[last.before.DockArea].current = last.w

\* a hidden floating container is shown again
C15_FloatingReached ==
  /\ OpenAssigned /\ ContainerIsFloating(AreaDockContainer(last.before.DockArea))
  /\ ~last.before.floatShown
  /\ area[last.before.DockArea].floatShown

(***************************************************************************)
(* C17: after any sequence of setIcon and setToggleViewActionMode calls    *)
(* the icon of the toggle action equals the icon of the tab whenever the   *)
(* action is not checkable (show-only mode) and is the empty icon whenever *)
(* it is checkable (toggle mode); setIcon always updates the tab icon.     *)
(* Checked under SpecIcon.                                                 *)
(***************************************************************************)
ActionIconFollowsMode(S, w) ==
  S.action[w].icon = (IF S.action[w].checkable THEN NoIcon ELSE icon(S, w))

C17_ActionIconFollowsMode ==
  /\ \A w \in Widgets : ActionIconFollowsMode(World, w)
  /\ \A w \in Widgets, Icon \in Icons :
       /\ icon(setIcon(World, w, Icon), w) = Icon
       /\ ActionIconFollowsMode(setIcon(World, w, Icon), w)
  /\ last.op = "setIcon" => (icon(World, last.w) # NoIcon) = last.open

\* setIcon in show-only mode
C17_Witness ==
  /\ last.op = "setIcon"
  /\ ~action[last.w].checkable
  /\ action[last.w].icon = "iconB" /\ tab[last.w].icon = "iconB"

\* back in toggle mode with an icon on the tab
C17_ToggleModeReached ==
  /\ last.op = "setToggleViewActionMode" /\ action[last.w].checkable
  /\ tab[last.w].icon # NoIcon /\ action[last.w].icon = NoIcon

(***************************************************************************)
(* C19: the feature flags are orthogonal to the visibility state machine:  *)
(* setFeatures and setFeature change the feature bit-set only (setFeature  *)
(* the named bit only) and leave the closed flag, the area reference and   *)
(* the state of the toggle action as they are; toggleView, setDockArea and *)
(* flagAsUnassigned never change the feature flags, and the outcome of     *)
(* toggleView is the same for every value of the feature flags             *)
(* (toggleView(false) closes the widget also when the closable flag is     *)
(* cleared).  Checked under SpecFeatures.                                  *)
(***************************************************************************)
WithFeatures(S, w, F) == [S EXCEPT !.d[w].Features = F]

C19_FeaturesOrthogonal ==
  \* the setters, from every reachable state
  /\ \A w \in Widgets, F \in DockWidgetFeatures :
       /\ setFeatures(World, w, F) = WithFeatures(World, w, F)
       /\ features(setFeatures(World, w, F), w) = F
  /\ \A w \in Widgets, flag \in DockWidgetFeature, on \in BOOLEAN :
       LET S1 == setFeature(World, w, flag, on) IN
       /\ S1 = WithFeatures(World, w, features(S1, w))
       /\ \A f \in DockWidgetFeatureFlags :
            (f \in features(S1, w)) =
              (IF f \in flag THEN on ELSE f \in features(World, w))
  \* the calls as made
  /\ last.op \in {"toggleView", "setDockArea", "flagAsUnassigned"} =>
       \A x \in Widgets : d[x].Features = last.before.Features[x]
  /\ last.op \in {"setFeatures", "setFeature"} =>
       /\ d[last.w].Closed = last.before.Closed
       /\ d[last.w].DockArea = last.before.DockArea
       /\ action[last.w].checkable = last.before.checkable
       /\ action[last.w].checked = last.before.checked
       /\ last.fx = NoFx
  \* toggleView does the same whatever the features are
  /\ \A w \in FeatureWidgets, Open \in BOOLEAN, SenderIsAction \in BOOLEAN :
       \A ub \in Outcomes(World, w, Open, SenderIsAction) :
         LET R == toggleView(World, w, Open, SenderIsAction, ub) IN
         \A F \in DockWidgetFeatures \ {features(World, w)} :
           toggleView(WithFeatures(World, w, F), w, Open, SenderIsAction, ub)
             = WithFeatures(R, w, F)
  /\ IsToggleView(last) /\ ~EffectiveOpen(last) /\ Completed(last) =>
       d[last.w].Closed

\* toggleView(false) closes an open, assigned widget that is not closable
C19_Witness ==
  /\ RealClose(last) /\ Completed(last) /\ last.before.DockArea # NoArea
  /\ "DockWidgetClosable" \notin last.before.Features[last.w]
  /\ "DockWidgetClosable" \notin d[last.w].Features
  /\ d[last.w].Closed /\ ~action[last.w].checked

\* setFeature on an open, assigned widget whose action is checked
C19_SetterReached ==
  /\ last.op = "setFeature" /\ d[last.w].DockArea # NoArea
  /\ action[last.w].checked /\ ~d[last.w].Closed
  /\ d[last.w].Features = {"DockWidgetClosable", "DockWidgetFloatable"}

====
